---- MODULE Spec2Model ----
(***************************************************************************)
(* Model of the hybrid trend + grid strategy (modules/hybrid_strategy.py)  *)
(* and of the backtest engine that drives it (modules/backtest_engine.py). *)
(*                                                                         *)
(* Numbers.  The program computes in floats; the model computes exactly,   *)
(* in integers:                                                            *)
(*   - prices and amounts are integers;                                    *)
(*   - atr_pct is in thousandths, grid sizes are in units of 1/GridScale   *)
(*     (two thousandths, so atr_pct * 2.5 is the integer atr_pct * 5);     *)
(*     every comparison of a ratio is done by cross multiplication with    *)
(*     the positive denominator;                                           *)
(*   - the engine's money (cash, commission, trade pnl, balance, equity)   *)
(*     is in units of 1/MoneyScale, commission_rate in units of            *)
(*     1/MoneyScale.  The value returned by execute_sell and total_cost    *)
(*     are in whole money units, as in the strategy.                       *)
(***************************************************************************)
EXTENDS Integers, Sequences, FiniteSets, TLC

VARIABLES
    positions,        \* HybridStrategy.positions: the lot ledger, oldest first
    last_buy_price,   \* HybridStrategy.last_buy_price (0 = no anchor)
    last_sell_price,  \* HybridStrategy.last_sell_price
    total_position,   \* HybridStrategy.total_position
    total_cost,       \* HybridStrategy.total_cost
    cash,             \* BacktestEngine.cash
    trades,           \* BacktestEngine.trades
    equity_curve,     \* BacktestEngine.equity_curve
    result,           \* the BacktestResult of _calculate_result
    pc,               \* where the run is: "bar", "signals", "result", "done"; "api", "closed"
    nbars,            \* rows of data consumed by the loop of run()
    bar,              \* the row being processed (the last one, between bars)
    position_ratio,   \* _process_bar's position_ratio for this bar, <<num, den>>
    signals,          \* the signals of this bar not yet applied
    rejected,         \* why this bar's BUY signal was not executed: "", "ratio", "cash"
    call,             \* the operation performed last, with its arguments
    ret               \* what it returned: execute_sell's pnl, process()'s signals in
                      \* SpecApi (the engine keeps them in signals), 0 otherwise

vars == <<positions, last_buy_price, last_sell_price, total_position, total_cost,
          cash, trades, equity_curve, result, pc, nbars, bar, position_ratio,
          signals, rejected, call, ret>>

strategy_state == <<positions, last_buy_price, last_sell_price, total_position, total_cost>>

engine_state == <<cash, trades, equity_curve, result>>

----------------------------------------------------------------------------
(* Scales of the fixed-point representation *)

GridScale == 2000

MoneyScale == 100

(* config.py: GRID_CONFIG (min_grid_size 5%, max_grid_size 10%, order_amount), *)
(* BACKTEST_CONFIG (initial_capital, commission_rate 1%) and RISK_CONFIG       *)
(* (max_position_ratio 4/5)                                                    *)

min_grid_size == 100

max_grid_size == 200

order_amount == 1

initial_capital == 195

commission_rate == 1

max_position_ratio == <<4, 5>>

(* Bounds of the model *)

MaxBars == 3

MaxLots == 3

MaxAmount == 2

MaxSellAmount == 3

MaxLog == 3

MaxCurve == 3

Prices == {85, 90, 95, 100, 110}

ApiPrices == {90, 100, 110}

\* <<ema_fast, ema_slow, ema_trend>>: ema_trend below or above every price
EmaTriples == {<<2, 1, 50>>, <<1, 2, 150>>, <<1, 1, 50>>}

AtrPcts == {0, 30, 100}

Bars == [Close : Prices, EMA : EmaTriples, ATR_pct : AtrPcts]

NoBar == [Close |-> 0, EMA |-> <<0, 0, 0>>, ATR_pct |-> 0]

----------------------------------------------------------------------------
(* Helpers *)

\* the record of a call: the operation, and the arguments it has
Call(op, price, amount, row) == [op |-> op, price |-> price, amount |-> amount, row |-> row]

Min(a, b) == IF a <= b THEN a ELSE b

Max(a, b) == IF a >= b THEN a ELSE b

RECURSIVE SumAmounts(_)
SumAmounts(ps) ==
    IF ps = <<>> THEN 0 ELSE Head(ps).amount + SumAmounts(Tail(ps))

RECURSIVE Reverse(_)
Reverse(s) == IF s = <<>> THEN <<>> ELSE Append(Reverse(Tail(s)), Head(s))

----------------------------------------------------------------------------
(* HybridStrategy *)

Position(p, a) == [entry_price |-> p, amount |-> a]

TradeSignal(s, p, a) == [side |-> s, price |-> p, amount |-> a]

detect_market_state(price, ema_fast, ema_slow, ema_trend) ==
    IF price > ema_trend /\ ema_fast > ema_slow THEN "BULL"
    ELSE IF price < ema_trend /\ ema_fast < ema_slow THEN "BEAR"
    ELSE "RANGE"

\* a faulty grid: atr_pct * 2.5 is used as it is
grid_size_unclamped(atr_pct) == atr_pct * 5

\* np.clip(atr_pct * 2.5, min_grid_size, max_grid_size), in units of 1/GridScale
grid_size(atr_pct) == Min(Max(atr_pct * 5, min_grid_size), max_grid_size)

\* a faulty buy logic: BULL and RANGE buy at or above the grid level, not below it
should_buy_above_grid(state, price, grid, anchor) ==
    CASE state = "BULL" ->
            \/ anchor = 0
            \/ price * GridScale >= anchor * (GridScale - grid)
      [] state = "RANGE" ->
            \/ anchor = 0
            \/ price * GridScale >= anchor * (GridScale - grid)
      [] state = "BEAR" ->
            /\ anchor > 0
            /\ price * GridScale <= anchor * (GridScale - grid * 2)

\* a faulty buy logic: the BEAR boundary is exclusive
should_buy_bear_strict(state, price, grid, anchor) ==
    CASE state = "BULL" ->
            \/ anchor = 0
            \/ price * GridScale <= anchor * (GridScale - grid)
      [] state = "RANGE" ->
            \/ anchor = 0
            \/ price * GridScale <= anchor * (GridScale - grid)
      [] state = "BEAR" ->
            /\ anchor > 0
            /\ price * GridScale < anchor * (GridScale - grid * 2)

\* the buy logic of process(): should_buy
should_buy(state, price, grid, anchor) ==
    CASE state = "BULL" ->
            \/ anchor = 0
            \/ price * GridScale <= anchor * (GridScale - grid)
      [] state = "RANGE" ->
            \/ anchor = 0
            \/ price * GridScale <= anchor * (GridScale - grid)
      [] state = "BEAR" ->
            /\ anchor > 0
            /\ price * GridScale <= anchor * (GridScale - grid * 2)

\* the sell logic of process() for one lot: should_sell, on
\* profit_pct = (price - pos.entry_price) / pos.entry_price
should_sell(state, price, grid, pos) ==
    LET num == price - pos.entry_price
        den == pos.entry_price
    IN  CASE state = "BULL"  -> num * GridScale >= grid * 2 * den
          [] state = "RANGE" -> num * GridScale >= grid * den
          [] state = "BEAR"  ->
                \/ 2 * num * GridScale >= grid * den
                \/ num * GridScale <= -(grid * 3) * den

\* positions_to_sell: the lots (with their index) that should be sold, in ledger order
RECURSIVE positions_to_sell(_, _, _, _, _)
positions_to_sell(ps, i, state, price, grid) ==
    IF i > Len(ps) THEN <<>>
    ELSE (IF should_sell(state, price, grid, ps[i]) THEN <<[i |-> i, pos |-> ps[i]]>> ELSE <<>>)
         \o positions_to_sell(ps, i + 1, state, price, grid)

\* faulty sell signals: each lot to sell asks for the whole holding
sell_signals_whole_holding(ps, state, price, grid) ==
    LET rev == Reverse(positions_to_sell(ps, 1, state, price, grid))
    IN  [k \in 1..Len(rev) |-> TradeSignal("SELL", price, SumAmounts(ps))]

\* faulty sell signals: sized to the configured order amount, not to the lot
sell_signals_order_amount(ps, state, price, grid) ==
    LET rev == Reverse(positions_to_sell(ps, 1, state, price, grid))
    IN  [k \in 1..Len(rev) |-> TradeSignal("SELL", price, order_amount)]

\* the sell signals, one per lot to sell, appended in reversed order
sell_signals(ps, state, price, grid) ==
    LET rev == Reverse(positions_to_sell(ps, 1, state, price, grid))
    IN  [k \in 1..Len(rev) |-> TradeSignal("SELL", price, rev[k].pos.amount)]

\* process(): the list of signals for a row, given the ledger and the anchor
process(ps, anchor, row) ==
    LET price == row.Close
        state == detect_market_state(price, row.EMA[1], row.EMA[2], row.EMA[3])
        grid  == grid_size(row.ATR_pct)
    IN  (IF should_buy(state, price, grid, anchor)
            THEN <<TradeSignal("BUY", price, order_amount)>> ELSE <<>>)
        \o sell_signals(ps, state, price, grid)

\* a faulty loop: the lot that should be reduced is popped whole
RECURSIVE sell_loop_pops_partial(_, _, _, _, _, _)
sell_loop_pops_partial(ps, remaining, pnl, tp, tc, price) ==
    IF remaining > 0 /\ ps # <<>>
    THEN LET pos == Head(ps)
         IN  IF pos.amount <= remaining
             THEN sell_loop_pops_partial(Tail(ps), remaining - pos.amount,
                            pnl + (price - pos.entry_price) * pos.amount,
                            tp - pos.amount, tc - pos.entry_price * pos.amount, price)
             ELSE sell_loop_pops_partial(Tail(ps), 0,
                            pnl + (price - pos.entry_price) * remaining,
                            tp - pos.amount, tc - pos.entry_price * pos.amount, price)
    ELSE [positions |-> ps, total_pnl |-> pnl, total_position |-> tp, total_cost |-> tc]

\* a faulty loop: a partial sale is booked at the lot's whole amount
RECURSIVE sell_loop_whole_lot_pnl(_, _, _, _, _, _)
sell_loop_whole_lot_pnl(ps, remaining, pnl, tp, tc, price) ==
    IF remaining > 0 /\ ps # <<>>
    THEN LET pos == Head(ps)
         IN  IF pos.amount <= remaining
             THEN sell_loop_whole_lot_pnl(Tail(ps), remaining - pos.amount,
                            pnl + (price - pos.entry_price) * pos.amount,
                            tp - pos.amount, tc - pos.entry_price * pos.amount, price)
             ELSE sell_loop_whole_lot_pnl(
                            <<Position(pos.entry_price, pos.amount - remaining)>> \o Tail(ps),
                            0,
                            pnl + (price - pos.entry_price) * pos.amount,
                            tp - remaining, tc - pos.entry_price * remaining, price)
    ELSE [positions |-> ps, total_pnl |-> pnl, total_position |-> tp, total_cost |-> tc]

\* the while loop of execute_sell
RECURSIVE sell_loop(_, _, _, _, _, _)
sell_loop(ps, remaining, pnl, tp, tc, price) ==
    IF remaining > 0 /\ ps # <<>>
    THEN LET pos == Head(ps)
         IN  IF pos.amount <= remaining
             THEN sell_loop(Tail(ps), remaining - pos.amount,
                            pnl + (price - pos.entry_price) * pos.amount,
                            tp - pos.amount, tc - pos.entry_price * pos.amount, price)
             ELSE sell_loop(<<Position(pos.entry_price, pos.amount - remaining)>> \o Tail(ps),
                            0,
                            pnl + (price - pos.entry_price) * remaining,
                            tp - remaining, tc - pos.entry_price * remaining, price)
    ELSE [positions |-> ps, total_pnl |-> pnl, total_position |-> tp, total_cost |-> tc]

\* a faulty execute_buy: the anchor is not moved to the price of the new lot
execute_buy_keeps_anchor(price, amount) ==
    /\ positions' = Append(positions, Position(price, amount))
    /\ total_position' = total_position + amount
    /\ total_cost' = total_cost + price * amount
    /\ UNCHANGED <<last_buy_price, last_sell_price>>

\* a faulty execute_buy: the lot is appended, total_position is not increased
execute_buy_stale_total(price, amount) ==
    /\ positions' = Append(positions, Position(price, amount))
    /\ last_buy_price' = price
    /\ total_cost' = total_cost + price * amount
    /\ UNCHANGED <<last_sell_price, total_position>>

execute_buy(price, amount) ==
    /\ positions' = Append(positions, Position(price, amount))
    /\ last_buy_price' = price
    /\ total_position' = total_position + amount
    /\ total_cost' = total_cost + price * amount
    /\ UNCHANGED last_sell_price

\* a faulty execute_sell: the anchors are not reset when the ledger empties
execute_sell_keeps_anchor(price, amount) ==
    LET r == sell_loop(positions, amount, 0, total_position, total_cost, price)
    IN  /\ positions' = r.positions
        /\ total_position' = r.total_position
        /\ total_cost' = r.total_cost
        /\ last_sell_price' = price
        /\ last_buy_price' = last_buy_price
        /\ ret' = r.total_pnl

execute_sell(price, amount) ==
    LET r == sell_loop(positions, amount, 0, total_position, total_cost, price)
    IN  /\ positions' = r.positions
        /\ total_position' = r.total_position
        /\ total_cost' = r.total_cost
        /\ IF r.positions # <<>>
           THEN last_sell_price' = price /\ last_buy_price' = last_buy_price
           ELSE last_buy_price' = 0 /\ last_sell_price' = 0
        /\ ret' = r.total_pnl

----------------------------------------------------------------------------
(* BacktestEngine *)

Trade(side, price, amount, pnl, balance) ==
    [side |-> side, price |-> price, amount |-> amount, pnl |-> pnl, balance |-> balance]

EmptyResult ==
    [total_trades |-> 0, winning_trades |-> 0, losing_trades |-> 0,
     win_rate |-> <<0, 1>>, total_pnl |-> 0,
     max_drawdown |-> <<0, 1>>, max_drawdown_pct |-> <<0, 1>>]

\* HybridStrategy.__init__
InitStrategy ==
    /\ positions = <<>>
    /\ last_buy_price = 0
    /\ last_sell_price = 0
    /\ total_position = 0
    /\ total_cost = 0

\* BacktestEngine.__init__, and the run not yet started
InitEngine ==
    /\ cash = initial_capital * MoneyScale
    /\ trades = <<>>
    /\ equity_curve = <<>>
    /\ result = EmptyResult
    /\ nbars = 0
    /\ bar = NoBar
    /\ position_ratio = <<0, 1>>
    /\ signals = <<>>
    /\ rejected = ""
    /\ call = Call("__init__", 0, 0, NoBar)
    /\ ret = 0

InitState == InitStrategy /\ InitEngine

Init == InitState /\ pc = "bar"

\* a faulty valuation: the holding is valued at what it cost, not at the price
get_position_value_at_cost(price) == total_cost

get_position_value(price) == total_position * price

\* where the loop over the signals of a bar goes once `rest` is what is left
AfterSignal(rest) == IF rest = <<>> THEN "bar" ELSE "signals"

\* _process_bar up to the call of process(): equity, position_ratio, signals
ProcessBar(row) ==
    /\ pc = "bar"
    /\ nbars < MaxBars
    /\ LET price  == row.Close
           equity == cash + get_position_value(price) * MoneyScale
           sigs   == process(positions, last_buy_price, row)
       IN  /\ equity_curve' = Append(equity_curve, equity)
           /\ position_ratio' = IF equity > 0
                                THEN <<get_position_value(price) * MoneyScale, equity>>
                                ELSE <<0, 1>>
           /\ signals' = sigs
           /\ pc' = AfterSignal(sigs)
           /\ call' = Call("process", price, 0, row)
    /\ bar' = row
    /\ nbars' = nbars + 1
    /\ rejected' = ""
    /\ ret' = 0
    /\ UNCHANGED <<strategy_state, cash, trades, result>>

\* a faulty limit: the comparison is inverted
risk_rejects_inverted == position_ratio[1] * max_position_ratio[2] <= max_position_ratio[1] * position_ratio[2]

\* position_ratio >= max_ratio
risk_rejects == position_ratio[1] * max_position_ratio[2] >= max_position_ratio[1] * position_ratio[2]

\* a faulty cost: the commission is left out
buy_cost_no_commission(signal) == signal.price * signal.amount * MoneyScale

\* cost = signal.price * signal.amount * (1 + commission_rate)
buy_cost(signal) == signal.price * signal.amount * (MoneyScale + commission_rate)

\* commission = price * amount * commission_rate
sell_commission(price, amount) == price * amount * commission_rate

\* a faulty engine: a BUY within the position limit is executed whatever the cash
ExecBuy_no_cash_check ==
    /\ pc = "signals"
    /\ LET signal == Head(signals)
           cost   == buy_cost(signal)
       IN  /\ signal.side = "BUY"
           /\ ~risk_rejects
           /\ cash' = cash - cost
           /\ execute_buy(signal.price, signal.amount)
           /\ trades' = Append(trades, Trade("BUY", signal.price, signal.amount, 0, cash - cost))
           /\ call' = Call("execute_buy", signal.price, signal.amount, NoBar)
    /\ ret' = 0
    /\ signals' = Tail(signals)
    /\ pc' = AfterSignal(Tail(signals))
    /\ UNCHANGED <<equity_curve, result, nbars, bar, position_ratio, rejected>>

\* a BUY signal that passes the position limit and the cash check
ExecBuy ==
    /\ pc = "signals"
    /\ LET signal == Head(signals)
           cost   == buy_cost(signal)
       IN  /\ signal.side = "BUY"
           /\ ~risk_rejects
           /\ cash >= cost
           /\ cash' = cash - cost
           /\ execute_buy(signal.price, signal.amount)
           /\ trades' = Append(trades, Trade("BUY", signal.price, signal.amount, 0, cash - cost))
           /\ call' = Call("execute_buy", signal.price, signal.amount, NoBar)
    /\ ret' = 0
    /\ signals' = Tail(signals)
    /\ pc' = AfterSignal(Tail(signals))
    /\ UNCHANGED <<equity_curve, result, nbars, bar, position_ratio, rejected>>

\* a BUY signal the engine does not execute: position limit, or not enough cash
SkipBuy ==
    /\ pc = "signals"
    /\ LET signal == Head(signals)
       IN  /\ signal.side = "BUY"
           /\ (risk_rejects \/ cash < buy_cost(signal))
    /\ rejected' = IF risk_rejects THEN "ratio" ELSE "cash"
    /\ signals' = Tail(signals)
    /\ pc' = AfterSignal(Tail(signals))
    /\ UNCHANGED <<strategy_state, engine_state, nbars, bar, position_ratio, call, ret>>

\* a SELL signal
ExecSell ==
    /\ pc = "signals"
    /\ LET signal     == Head(signals)
           commission == sell_commission(signal.price, signal.amount)
           credit     == signal.price * signal.amount * MoneyScale - commission
       IN  /\ signal.side = "SELL"
           /\ execute_sell(signal.price, signal.amount)
           /\ cash' = cash + credit
           /\ trades' = Append(trades, Trade("SELL", signal.price, signal.amount,
                                             ret' * MoneyScale - commission, cash + credit))
           /\ call' = Call("execute_sell", signal.price, signal.amount, NoBar)
    /\ signals' = Tail(signals)
    /\ pc' = AfterSignal(Tail(signals))
    /\ UNCHANGED <<equity_curve, result, nbars, bar, position_ratio, rejected>>

\* a faulty close: the P&L logged leaves the commission out
RECURSIVE close_trades_gross_pnl(_, _, _)
close_trades_gross_pnl(ps, price, balance) ==
    IF ps = <<>> THEN <<>>
    ELSE LET pos        == Head(ps)
             commission == sell_commission(price, pos.amount)
             credit     == price * pos.amount * MoneyScale - commission
             pnl        == (price - pos.entry_price) * pos.amount * MoneyScale
         IN  <<Trade("SELL(CLOSE)", price, pos.amount, pnl, balance + credit)>>
             \o close_trades_gross_pnl(Tail(ps), price, balance + credit)

\* the loop of _close_all over a copy of the ledger: the trades it appends ...
RECURSIVE close_trades(_, _, _)
close_trades(ps, price, balance) ==
    IF ps = <<>> THEN <<>>
    ELSE LET pos        == Head(ps)
             commission == sell_commission(price, pos.amount)
             credit     == price * pos.amount * MoneyScale - commission
             pnl        == (price - pos.entry_price) * pos.amount * MoneyScale - commission
         IN  <<Trade("SELL(CLOSE)", price, pos.amount, pnl, balance + credit)>>
             \o close_trades(Tail(ps), price, balance + credit)

\* ... and the cash it leaves
RECURSIVE close_cash(_, _, _)
close_cash(ps, price, balance) ==
    IF ps = <<>> THEN balance
    ELSE close_cash(Tail(ps), price,
                    balance + Head(ps).amount * price * MoneyScale
                            - sell_commission(price, Head(ps).amount))

\* a faulty close: total_position is not reset
_close_all_keeps_total(price) ==
    /\ trades' = trades \o close_trades(positions, price, cash)
    /\ cash' = close_cash(positions, price, cash)
    /\ positions' = <<>>
    /\ UNCHANGED <<last_buy_price, last_sell_price, total_position, total_cost>>

_close_all(price) ==
    /\ trades' = trades \o close_trades(positions, price, cash)
    /\ cash' = close_cash(positions, price, cash)
    /\ positions' = <<>>
    /\ total_position' = 0
    /\ UNCHANGED <<last_buy_price, last_sell_price, total_cost>>

\* run(): the rows are exhausted; close at the last row's Close
CloseAll ==
    /\ pc = "bar"
    /\ nbars >= 1
    /\ _close_all(bar.Close)
    /\ pc' = "result"
    /\ call' = Call("_close_all", bar.Close, 0, NoBar)
    /\ ret' = 0
    /\ UNCHANGED <<equity_curve, result, nbars, bar, position_ratio, signals, rejected>>

\* 'SELL' in t.side
is_sell_side(side) == side \in {"SELL", "SELL(CLOSE)"}

sell_trades == SelectSeq(trades, LAMBDA t : is_sell_side(t.side))

\* sum(1 for t in sell_trades if t.pnl > 0)
RECURSIVE count_winning(_)
count_winning(ts) ==
    IF ts = <<>> THEN 0
    ELSE (IF Head(ts).pnl > 0 THEN 1 ELSE 0) + count_winning(Tail(ts))

\* a faulty count: a sell of P&L zero is not a loss
RECURSIVE count_losing_strict(_)
count_losing_strict(ts) ==
    IF ts = <<>> THEN 0
    ELSE (IF Head(ts).pnl < 0 THEN 1 ELSE 0) + count_losing_strict(Tail(ts))

\* sum(1 for t in sell_trades if t.pnl <= 0)
RECURSIVE count_losing(_)
count_losing(ts) ==
    IF ts = <<>> THEN 0
    ELSE (IF Head(ts).pnl <= 0 THEN 1 ELSE 0) + count_losing(Tail(ts))

RECURSIVE sum_pnl(_)
sum_pnl(ts) == IF ts = <<>> THEN 0 ELSE Head(ts).pnl + sum_pnl(Tail(ts))

\* the drawdown loop of _calculate_result; max_dd is the fraction <<num, den>>
RECURSIVE drawdown_loop(_, _, _)
drawdown_loop(eqs, peak, max_dd) ==
    IF eqs = <<>> THEN [peak |-> peak, max_dd |-> max_dd]
    ELSE LET eq == Head(eqs)
             pk == IF eq > peak THEN eq ELSE peak
             dd == IF pk > 0 THEN <<pk - eq, pk>> ELSE <<0, 1>>
         IN  drawdown_loop(Tail(eqs), pk,
                           IF dd[1] * max_dd[2] > max_dd[1] * dd[2] THEN dd ELSE max_dd)

_calculate_result ==
    LET wins   == count_winning(sell_trades)
        losses == count_losing(sell_trades)
        total  == Len(sell_trades)
        dd     == IF equity_curve # <<>>
                  THEN drawdown_loop(equity_curve, equity_curve[1], <<0, 1>>)
                  ELSE [peak |-> 0, max_dd |-> <<0, 1>>]
    IN  [total_trades |-> total,
         winning_trades |-> wins,
         losing_trades |-> losses,
         win_rate |-> IF total > 0 THEN <<wins, total>> ELSE <<0, 1>>,
         total_pnl |-> sum_pnl(sell_trades),
         max_drawdown_pct |-> dd.max_dd,
         max_drawdown |-> <<dd.peak * dd.max_dd[1], dd.max_dd[2]>>]

\* run(): result = self._calculate_result(), and return
CalculateResult ==
    /\ pc = "result"
    /\ result' = _calculate_result
    /\ pc' = "done"
    /\ call' = Call("_calculate_result", 0, 0, NoBar)
    /\ UNCHANGED <<strategy_state, cash, trades, equity_curve, nbars, bar,
                   position_ratio, signals, rejected, ret>>

Next ==
    \/ \E row \in Bars : ProcessBar(row)
    \/ ExecBuy
    \/ SkipBuy
    \/ ExecSell
    \/ CloseAll
    \/ CalculateResult

\* BacktestEngine.run() over any sequence of 1..MaxBars rows
Spec == Init /\ [][Next]_vars

\* run() is a sequential loop: whatever step is next is taken
FairSpec == Spec /\ WF_vars(Next)

----------------------------------------------------------------------------
(* The strategy and the end-of-run close called directly, in any order and *)
(* with any arguments                                                      *)

InitApi == InitState /\ pc = "api"

Amounts == 1..MaxAmount

SellAmounts == 0..MaxSellAmount

ApiBuy(price, amount) ==
    /\ pc = "api"
    /\ Len(positions) < MaxLots
    /\ execute_buy(price, amount)
    /\ call' = Call("execute_buy", price, amount, NoBar)
    /\ ret' = 0
    /\ UNCHANGED <<engine_state, pc, nbars, bar, position_ratio, signals, rejected>>

ApiSell(price, amount) ==
    /\ pc = "api"
    /\ execute_sell(price, amount)
    /\ call' = Call("execute_sell", price, amount, NoBar)
    /\ UNCHANGED <<engine_state, pc, nbars, bar, position_ratio, signals, rejected>>

ApiCloseAll(price) ==
    /\ pc = "api"
    /\ _close_all(price)
    /\ pc' = "closed"
    /\ call' = Call("_close_all", price, 0, NoBar)
    /\ ret' = 0
    /\ UNCHANGED <<equity_curve, result, nbars, bar, position_ratio, signals, rejected>>

NextApi ==
    \/ \E price \in ApiPrices, amount \in Amounts : ApiBuy(price, amount)
    \/ \E price \in ApiPrices, amount \in SellAmounts : ApiSell(price, amount)
    \/ \E price \in ApiPrices : ApiCloseAll(price)

SpecApi == InitApi /\ [][NextApi]_vars

----------------------------------------------------------------------------
(* process() as a function of the ledger, the anchor and the row: it is    *)
(* applied once to every ledger that execute_buy can build                 *)

ApiBars == [Close : ApiPrices, EMA : EmaTriples, ATR_pct : AtrPcts]

Lots == [entry_price : ApiPrices, amount : Amounts]

Ledgers == UNION {[1..n -> Lots] : n \in 0..MaxLots}

RECURSIVE SumCosts(_)
SumCosts(ps) ==
    IF ps = <<>> THEN 0
    ELSE Head(ps).entry_price * Head(ps).amount + SumCosts(Tail(ps))

\* the strategy after the execute_buy calls that build the ledger ps
InitProcess ==
    /\ InitEngine
    /\ pc = "fn"
    /\ last_sell_price = 0
    /\ \E ps \in Ledgers :
        /\ positions = ps
        /\ last_buy_price = IF ps = <<>> THEN 0 ELSE ps[Len(ps)].entry_price
        /\ total_position = SumAmounts(ps)
        /\ total_cost = SumCosts(ps)

Process(row) ==
    /\ pc = "fn"
    /\ ret' = process(positions, last_buy_price, row)
    /\ call' = Call("process", row.Close, 0, row)
    /\ pc' = "returned"
    /\ UNCHANGED <<strategy_state, engine_state, nbars, bar, position_ratio,
                   signals, rejected>>

NextProcess == \E row \in ApiBars : Process(row)

SpecProcess == InitProcess /\ [][NextProcess]_vars

----------------------------------------------------------------------------
(* _calculate_result() as a function of the trade log and the equity curve: *)
(* it is applied once to every log and every curve within the bounds        *)

\* the P&L of a logged sell, in units of 1/MoneyScale: a loss, nothing, a gain
LogPnls == {-1, 0, 1}

\* the equity of a bar, in units of 1/MoneyScale
EquityValues == {1, 2, 3}

\* a BUY is logged with pnl = 0; price, amount and balance are not read by
\* _calculate_result
LogTrades ==
    {Trade("BUY", 100, order_amount, 0, 0)}
    \cup {Trade(side, 100, order_amount, pnl, 0) :
             side \in {"SELL", "SELL(CLOSE)"}, pnl \in LogPnls}

Logs == UNION {[1..n -> LogTrades] : n \in 0..MaxLog}

Curves == UNION {[1..n -> EquityValues] : n \in 0..MaxCurve}

InitResult ==
    /\ InitStrategy
    /\ cash = initial_capital * MoneyScale
    /\ trades \in Logs
    /\ equity_curve \in Curves
    /\ result = EmptyResult
    /\ nbars = Len(equity_curve)
    /\ bar = NoBar
    /\ position_ratio = <<0, 1>>
    /\ signals = <<>>
    /\ rejected = ""
    /\ call = Call("__init__", 0, 0, NoBar)
    /\ ret = 0
    /\ pc = "result"

NextResult == CalculateResult

SpecResult == InitResult /\ [][NextResult]_vars

----------------------------------------------------------------------------
(* Properties *)

\* the step just taken was a call of execute_sell
SellStep == call'.op = "execute_sell"

\* C1. Ledger consistency: after any sequence of execute_buy, execute_sell
\* (any amount, also more than is held) and the end-of-run _close_all,
\* total_position is the sum of the amounts of the lots in positions.
C1_LedgerConsistency == total_position = SumAmounts(positions)

\* a sell of 3 units at 110 that found fewer than 3 in the ledger and emptied it
C1_Witness ==
    /\ call.op = "execute_sell" /\ call.amount = 3 /\ call.price = 110
    /\ ret = 20
    /\ positions = <<>>
    /\ total_position = 0

\* qs is ps after a FIFO sale of a units: some k oldest lots are gone, the lot after
\* them keeps its entry price and a positive part of its amount, the lots after that
\* one are untouched, and min(a, total) units are gone in all
FifoConsumed(ps, a, qs) ==
    \E k \in 0..Len(ps) :
        /\ Len(qs) = Len(ps) - k
        /\ \A i \in 2..Len(qs) : qs[i] = ps[k + i]
        /\ Len(qs) >= 1 =>
              /\ qs[1].entry_price = ps[k + 1].entry_price
              /\ qs[1].amount >= 1
              /\ qs[1].amount <= ps[k + 1].amount
        /\ SumAmounts(qs) = SumAmounts(ps) - Min(a, SumAmounts(ps))

\* C2. FIFO consumption: execute_sell(price, a) with a > 0 drains lots oldest
\* first, reduces at most one lot (the first not fully drained), leaves every
\* later lot untouched, and removes min(a, previous total) units.
C2_FifoConsumption ==
    [][(SellStep /\ call'.amount > 0) => FifoConsumed(positions, call'.amount, positions')]_vars

\* 3 units sold from <<(90, 2), (100, 2)>> or <<(90, 1), (90, 1), (100, 2)>>: the head
\* lots are drained and one unit of the lot at 100 is taken
C2_Witness ==
    /\ call.op = "execute_sell" /\ call.amount = 3 /\ call.price = 110
    /\ ret = 50
    /\ positions = <<Position(100, 1)>>

\* what a sale took from lot i of ps, given the ledger qs it left
Consumed(ps, qs, i) ==
    LET k == Len(ps) - Len(qs)
    IN  IF i <= k THEN ps[i].amount ELSE ps[i].amount - qs[i - k].amount

RECURSIVE SumPnl(_, _, _, _)
SumPnl(ps, qs, price, i) ==
    IF i > Len(ps) THEN 0
    ELSE (price - ps[i].entry_price) * Consumed(ps, qs, i) + SumPnl(ps, qs, price, i + 1)

\* C3. Realized P&L: execute_sell(price, a) returns the sum over the lots it
\* consumes, fully or partly, of (price - entry price) x (amount taken from the
\* lot), and 0 on an empty ledger.
C3_RealizedPnl ==
    [][SellStep =>
        /\ ret' = SumPnl(positions, positions', call'.price, 1)
        /\ positions = <<>> => ret' = 0]_vars

\* 3 units sold at 90 from a ledger whose head cost 110 and whose next lot, at 100,
\* is left with one unit: a loss of 20 a unit on two units and of 10 on one
C3_Witness ==
    /\ call.op = "execute_sell" /\ call.amount = 3 /\ call.price = 90
    /\ ret = -50
    /\ positions = <<Position(100, 1)>>

\* C9. Anchor reset on sell: after execute_sell, an empty ledger means
\* last_buy_price = last_sell_price = 0; otherwise last_sell_price is the sell
\* price and last_buy_price is unchanged.
C9_AnchorReset ==
    [][SellStep =>
        IF positions' = <<>>
        THEN last_buy_price' = 0 /\ last_sell_price' = 0
        ELSE last_sell_price' = call'.price /\ last_buy_price' = last_buy_price]_vars

\* a sell that emptied a ledger holding lots, and so cleared the anchor
C9_Witness ==
    /\ call.op = "execute_sell" /\ call.amount = 2 /\ ret = 10
    /\ positions = <<>>
    /\ last_buy_price = 0 /\ last_sell_price = 0

\* the trades a step appended
NewTrades == SubSeq(trades', Len(trades) + 1, Len(trades'))

\* what a trade moves: a BUY costs price x amount x (1 + commission_rate), a sell
\* brings price x amount less price x amount x commission_rate
CashMove(t) ==
    IF t.side = "BUY"
    THEN -(t.price * t.amount * (MoneyScale + commission_rate))
    ELSE t.price * t.amount * MoneyScale - t.price * t.amount * commission_rate

\* from balance b the trades ts, in order, each record the cash right after it,
\* and leave final
RECURSIVE Settles(_, _, _)
Settles(ts, b, final) ==
    IF ts = <<>> THEN b = final
    ELSE /\ Head(ts).balance = b + CashMove(Head(ts))
         /\ Settles(Tail(ts), b + CashMove(Head(ts)), final)

\* C4. Capital conservation: every executed BUY takes price x amount x
\* (1 + commission_rate) from cash, every executed SELL (in the loop or closing)
\* adds price x amount less the commission, each Trade records the cash right
\* after it, and a step that appends no trade leaves cash unchanged.
C4_CapitalConservation ==
    [][/\ Len(trades') >= Len(trades)
       /\ SubSeq(trades', 1, Len(trades)) = trades
       /\ Settles(NewTrades, cash, cash')]_vars

HasTrade(side) == \E i \in 1..Len(trades) : trades[i].side = side

\* a finished run that bought, sold in the loop and closed a lot at the end
C4_Witness ==
    /\ pc = "done"
    /\ HasTrade("BUY") /\ HasTrade("SELL") /\ HasTrade("SELL(CLOSE)")

\* a trade without its balance
Stripped(ts) ==
    [i \in 1..Len(ts) |-> [side |-> ts[i].side, price |-> ts[i].price,
                           amount |-> ts[i].amount, pnl |-> ts[i].pnl]]

\* one closing sell per lot of ps at price: the lot's amount, and
\* (price - the lot's entry price) x amount less the commission
ExpectedClose(ps, price) ==
    [i \in 1..Len(ps) |->
        [side |-> "SELL(CLOSE)", price |-> price, amount |-> ps[i].amount,
         pnl |-> (price - ps[i].entry_price) * ps[i].amount * MoneyScale
                 - price * ps[i].amount * commission_rate]]

\* the step is the forced close at the end of the run
CloseStep == pc = "bar" /\ pc' = "result"

\* C5. End-of-run closure: every run finishes, and then the ledger is empty and
\* total_position is 0; the forced close appends exactly one SELL(CLOSE) per lot
\* open after the last bar, at the last bar's close, with the lot's amount and
\* P&L = (close - the lot's entry price) x amount - commission; no other step
\* appends a SELL(CLOSE).
C5_EndOfRunClosure ==
    /\ <>(pc = "done")
    /\ [](pc \in {"result", "done"} => positions = <<>> /\ total_position = 0)
    /\ [][IF CloseStep
          THEN Stripped(NewTrades) = ExpectedClose(positions, bar.Close)
          ELSE \A i \in 1..Len(NewTrades) : NewTrades[i].side # "SELL(CLOSE)"]_vars

\* a finished run whose forced close sold two lots bought at different prices
C5_Witness ==
    /\ pc = "done"
    /\ positions = <<>> /\ total_position = 0
    /\ \E i \in 1..Len(trades) :
        /\ i < Len(trades)
        /\ trades[i].side = "SELL(CLOSE)" /\ trades[i + 1].side = "SELL(CLOSE)"
        /\ trades[i].pnl # trades[i + 1].pnl

\* the step applies (or skips) the BUY signal at the head of the bar's signals
BuyStep == pc = "signals" /\ Head(signals).side = "BUY"

\* the position ratio of the start of the bar is below the limit, and the cash
\* covers price x amount x (1 + commission_rate)
BuyAllowed ==
    LET signal == Head(signals)
        equity == equity_curve[Len(equity_curve)]
        value  == total_position * signal.price * MoneyScale
    IN  /\ IF equity > 0
           THEN value * max_position_ratio[2] < max_position_ratio[1] * equity
           ELSE 0 < max_position_ratio[1]
        /\ cash >= signal.price * signal.amount * (MoneyScale + commission_rate)

BuyExecuted ==
    LET signal == Head(signals)
    IN  /\ positions' = Append(positions, Position(signal.price, signal.amount))
        /\ trades' = Append(trades, Trade("BUY", signal.price, signal.amount, 0, cash'))

\* the BUY is executed iff it is allowed, and a rejected one changes nothing
BuyGating ==
    BuyStep =>
        /\ BuyExecuted <=> BuyAllowed
        /\ ~BuyAllowed =>
              UNCHANGED <<cash, positions, last_buy_price, last_sell_price,
                          total_position, trades>>

\* the bar is over and its BUY signal was rejected
RejectedBarOver == pc = "bar" /\ rejected # ""

\* process() on a row equal to the last one emits the same BUY signal
BuyEmittedAgain ==
    LET again == process(positions, last_buy_price, bar)
    IN  again # <<>> /\ again[1] = TradeSignal("BUY", bar.Close, order_amount)

\* the SELL signals of the bar emptied the ledger, and the regime is BEAR
BearLedgerEmptied ==
    /\ positions = <<>>
    /\ detect_market_state(bar.Close, bar.EMA[1], bar.EMA[2], bar.EMA[3]) = "BEAR"

\* C6, as claimed. A BUY signal is executed iff the position ratio of the start of
\* the bar is below max_position_ratio and cash >= price x amount x
\* (1 + commission_rate); a rejected BUY changes neither cash, the ledger, the
\* anchors, total_position nor the trade log, so a following bar with the same
\* price and indicators emits the same BUY signal again.
C6_Original ==
    /\ [][BuyGating]_vars
    /\ [](RejectedBarOver => BuyEmittedAgain)

\* C6, amended. As claimed, except that the same BUY signal is emitted again only
\* if the bar's SELL signals, applied after the rejection, did not empty the
\* ledger of a BEAR bar (an empty ledger resets the anchor to 0, and BEAR never
\* buys without an anchor).
C6_BuyGating ==
    /\ [][BuyGating]_vars
    /\ []((RejectedBarOver /\ ~BearLedgerEmptied) => BuyEmittedAgain)

\* a bar is over whose BUY was rejected for the position limit, with two lots
\* open; the same row would emit the BUY again
C6_Witness ==
    /\ RejectedBarOver
    /\ rejected = "ratio"
    /\ Len(positions) = 2
    /\ BuyEmittedAgain

\* the step is a call of process(), which returns ret'
ProcessStep == pc = "fn" /\ pc' = "returned"

RowState(row) == detect_market_state(row.Close, row.EMA[1], row.EMA[2], row.EMA[3])

WithSide(sigs, side) == SelectSeq(sigs, LAMBDA sig : sig.side = side)

\* the lot meets the take-profit or stop-loss trigger of the regime, on
\* profit = (price - entry) / entry and grid in units of 1/GridScale
MeetsTrigger(state, grid, price, lot) ==
    LET gain == (price - lot.entry_price) * GridScale
    IN  \/ state = "BULL"  /\ gain >= 2 * grid * lot.entry_price
        \/ state = "RANGE" /\ gain >= grid * lot.entry_price
        \/ state = "BEAR"  /\ 2 * gain >= grid * lot.entry_price
        \/ state = "BEAR"  /\ gain <= -3 * grid * lot.entry_price

\* the SELL signals sells match the lots of ps that meet their trigger: as many
\* signals as such lots, as many of each amount, all at the row's price
SellsMatchLots(ps, row, sells) ==
    LET state     == RowState(row)
        grid      == grid_size(row.ATR_pct)
        Q         == {i \in 1..Len(ps) : MeetsTrigger(state, grid, row.Close, ps[i])}
        OfLots(a) == {i \in Q : ps[i].amount = a}
        OfSigs(a) == {k \in 1..Len(sells) : sells[k].amount = a}
        As        == {ps[i].amount : i \in 1..Len(ps)} \cup {sells[k].amount : k \in 1..Len(sells)}
    IN  /\ Len(sells) = Cardinality(Q)
        /\ \A k \in 1..Len(sells) : sells[k].price = row.Close
        /\ \A a \in As : Cardinality(OfSigs(a)) = Cardinality(OfLots(a))

\* C7. Sell-signal generation: process() emits exactly one SELL signal for each
\* open lot that meets its regime trigger (BULL: profit >= 2 x grid; RANGE:
\* profit >= grid; BEAR: profit >= 0.5 x grid or profit <= -3 x grid) and none
\* for another lot, each sized to the full amount of its lot.
C7_SellSignals ==
    [][ProcessStep => SellsMatchLots(positions, call'.row, WithSide(ret', "SELL"))]_vars

\* process() returned two SELL signals of different amounts for a ledger of three
\* lots: one lot did not meet its trigger
C7_Witness ==
    /\ pc = "returned"
    /\ Len(positions) = 3
    /\ LET sells == WithSide(ret, "SELL")
       IN  Len(sells) = 2 /\ sells[1].amount # sells[2].amount

\* the buy condition of the regime on the anchor
BuyCondition(state, grid, price, anchor) ==
    \/ /\ state \in {"BULL", "RANGE"}
       /\ (anchor = 0 \/ price * GridScale <= anchor * (GridScale - grid))
    \/ /\ state = "BEAR"
       /\ anchor > 0
       /\ price * GridScale <= anchor * (GridScale - 2 * grid)

\* C8. Buy-signal generation: process() emits at most one BUY signal per bar, of
\* the configured order amount at the bar's price; in BULL and RANGE iff
\* last_buy_price = 0 or price <= last_buy_price x (1 - grid), in BEAR iff
\* last_buy_price > 0 and price <= last_buy_price x (1 - 2 x grid), the boundary
\* price included, and never in BEAR while the anchor is 0.
C8_BuySignal ==
    [][ProcessStep =>
        LET row  == call'.row
            buys == WithSide(ret', "BUY")
        IN  /\ Len(buys) <= 1
            /\ \A k \in 1..Len(buys) : buys[k] = TradeSignal("BUY", row.Close, order_amount)
            /\ Len(buys) = 1 <=>
                  BuyCondition(RowState(row), grid_size(row.ATR_pct), row.Close, last_buy_price)
            /\ (RowState(row) = "BEAR" /\ last_buy_price = 0) => buys = <<>>]_vars

\* a BEAR row at exactly anchor x (1 - 2 x grid): 90 on an anchor of 100 with a
\* grid of 5%, and the BUY is emitted
C8_Witness ==
    /\ pc = "returned"
    /\ RowState(call.row) = "BEAR"
    /\ last_buy_price = 100 /\ call.row.Close = 90
    /\ grid_size(call.row.ATR_pct) * 20 = GridScale
    /\ WithSide(ret, "BUY") = <<TradeSignal("BUY", 90, order_amount)>>

\* the strategy's running state after execute_buy(price, amount) on st
AfterBuy(st, price, amount) ==
    <<Append(st[1], Position(price, amount)), price, st[3],
      st[4] + amount, st[5] + price * amount>>

\* the strategy's running state after execute_sell(price, amount) on st
AfterSell(st, price, amount) ==
    LET r == sell_loop(st[1], amount, 0, st[4], st[5], price)
    IN  <<r.positions,
          IF r.positions # <<>> THEN st[2] ELSE 0,
          IF r.positions # <<>> THEN price ELSE 0,
          r.total_position, r.total_cost>>

\* the states that at most n calls of execute_sell lead to from st, at any price and
\* for any amount (an amount above what st holds gives what all of it gives)
RECURSIVE SellReach(_, _)
SellReach(st, n) ==
    IF n = 0 THEN {st}
    ELSE LET R == SellReach(st, n - 1)
         IN  R \cup {AfterSell(x, price, amount) :
                        x \in R, price \in Prices, amount \in 1..(SumAmounts(st[1]) + 1)}

\* C10, as claimed. The strategy's running state (ledger, last_buy_price,
\* last_sell_price, total_position, total_cost) changes only through execute_buy
\* and execute_sell: process() leaves it unchanged, and every step of a run, the
\* forced close included, changes it to what calls of those two operations give.
C10_OnlyBuyAndSell ==
    [][strategy_state' # strategy_state =>
        \/ \E price \in Prices :
              strategy_state' = AfterBuy(strategy_state, price, order_amount)
        \/ strategy_state' \in SellReach(strategy_state, Len(positions))]_vars

\* the sum of the amounts of the trades of ts whose side is in sides
RECURSIVE TradedAmount(_, _)
TradedAmount(ts, sides) ==
    IF ts = <<>> THEN 0
    ELSE (IF Head(ts).side \in sides THEN Head(ts).amount ELSE 0)
         + TradedAmount(Tail(ts), sides)

\* what the trade log says is held: bought less sold (in the loop or closing)
LoggedHolding ==
    TradedAmount(trades, {"BUY"}) - TradedAmount(trades, {"SELL", "SELL(CLOSE)"})

\* the step executes the SELL signal at the head of the bar's signals
SellSignalStep == pc = "signals" /\ Head(signals).side = "SELL"

\* C11. Quantity reconciliation: in every state of a run the sum of the ledger's
\* lot amounts is the sum of the amounts of the BUY trades less that of the SELL
\* and SELL(CLOSE) trades, and every SELL signal the engine executes is filled in
\* full: the ledger loses exactly the signal's amount.
C11_QuantityReconciliation ==
    /\ [](SumAmounts(positions) = LoggedHolding)
    /\ [][SellSignalStep =>
            SumAmounts(positions) - SumAmounts(positions') = Head(signals).amount]_vars

\* two lots were bought, the older was sold in the loop, the newer is still held
C11_Witness ==
    /\ pc = "bar"
    /\ TradedAmount(trades, {"BUY"}) = 2
    /\ TradedAmount(trades, {"SELL"}) = 1
    /\ Len(positions) = 1
    /\ call.op = "execute_sell"

\* the step is the start of a bar: the loop of run() takes the next row
BarStep == nbars' = nbars + 1

\* C12. Equity curve: after k bars the equity curve has exactly k entries, the
\* forced close and the result adding none; the entry of a bar is cash +
\* total_position x the bar's close, as they stand before any signal of that bar
\* is applied, and no other step touches the curve.
C12_EquityCurve ==
    /\ [](Len(equity_curve) = nbars)
    /\ [][IF BarStep
          THEN equity_curve' =
                  Append(equity_curve, cash + total_position * bar'.Close * MoneyScale)
          ELSE equity_curve' = equity_curve]_vars

\* a finished run of at least two bars whose equity moved between the first bar
\* and the second, and whose forced close sold a lot
C12_Witness ==
    /\ pc = "done"
    /\ nbars >= 2
    /\ Len(equity_curve) = nbars
    /\ equity_curve[2] # equity_curve[1]
    /\ HasTrade("SELL(CLOSE)")

\* the places of the trade log that hold a sell, in the loop or closing
SellEntries == {i \in 1..Len(trades) : trades[i].side \in {"SELL", "SELL(CLOSE)"}}

\* the P&L of the sells logged at place i or later
RECURSIVE SellPnlFrom(_)
SellPnlFrom(i) ==
    IF i > Len(trades) THEN 0
    ELSE (IF i \in SellEntries THEN trades[i].pnl ELSE 0) + SellPnlFrom(i + 1)

\* C13. Result statistics: total_trades counts exactly the SELL and SELL(CLOSE)
\* entries of the trade log; winning_trades those of them with P&L > 0 and
\* losing_trades those with P&L <= 0, so the two add up to total_trades;
\* win_rate is wins / total, and 0 when there is no sell; total_pnl is the sum
\* of the P&L of those entries.
C13_ResultStatistics ==
    pc = "done" =>
        LET total == Cardinality(SellEntries)
            wins  == Cardinality({i \in SellEntries : trades[i].pnl > 0})
            loss  == Cardinality({i \in SellEntries : trades[i].pnl <= 0})
        IN  /\ result.total_trades = total
            /\ result.winning_trades = wins
            /\ result.losing_trades = loss
            /\ result.winning_trades + result.losing_trades = result.total_trades
            /\ result.win_rate[2] > 0
            /\ IF total > 0
               THEN result.win_rate[1] * total = wins * result.win_rate[2]
               ELSE result.win_rate[1] = 0
            /\ result.total_pnl = SellPnlFrom(1)

\* the result of a log of a BUY, a sell of P&L zero and a winning closing sell:
\* two trades, one won, one lost
C13_Witness ==
    /\ pc = "done"
    /\ Len(trades) = 3
    /\ trades[1].side = "BUY"
    /\ trades[2].side = "SELL" /\ trades[2].pnl = 0
    /\ trades[3].side = "SELL(CLOSE)" /\ trades[3].pnl > 0
    /\ result.total_trades = 2
    /\ result.winning_trades = 1 /\ result.losing_trades = 1
    /\ result.win_rate = <<1, 2>>

\* the running peak at place i of the equity curve: the highest equity so far
RunningPeak(i) ==
    LET seen == {equity_curve[j] : j \in 1..i}
    IN  CHOOSE p \in seen : \A q \in seen : q <= p

\* the drawdown at place i, as the fraction <<peak - equity, peak>>
DrawdownAt(i) ==
    IF RunningPeak(i) > 0
    THEN <<RunningPeak(i) - equity_curve[i], RunningPeak(i)>>
    ELSE <<0, 1>>

\* the places of the equity curve where the drawdown is the largest
WorstPlaces ==
    {i \in 1..Len(equity_curve) :
        \A j \in 1..Len(equity_curve) :
            DrawdownAt(j)[1] * DrawdownAt(i)[2] <= DrawdownAt(i)[1] * DrawdownAt(j)[2]}

\* C14, as claimed. Absolute max drawdown: for any equity curve max_drawdown_pct
\* is the largest (running peak - equity) / running peak over the curve, and
\* max_drawdown is the running peak in force where that maximum is attained
\* times max_drawdown_pct, which is the money lost from that peak to the trough,
\* also when a higher peak is reached later in the curve.
C14_AbsoluteDrawdown ==
    (pc = "done" /\ equity_curve # <<>>) =>
        \E i \in WorstPlaces :
            /\ result.max_drawdown_pct[2] > 0
            /\ result.max_drawdown_pct[1] * DrawdownAt(i)[2]
                  = DrawdownAt(i)[1] * result.max_drawdown_pct[2]
            /\ result.max_drawdown[2] > 0
            /\ result.max_drawdown[1] = DrawdownAt(i)[1] * result.max_drawdown[2]

\* atr_pct x 2.5, in units of 1/GridScale, brought into [min_grid_size, max_grid_size]
Clamped(atr_pct) ==
    LET raw == atr_pct * 5
    IN  CASE raw < min_grid_size -> min_grid_size
          [] raw > max_grid_size -> max_grid_size
          [] OTHER -> raw

\* C15. Grid clamp: for any ATR fraction, 0 and values far above the bounds
\* included, the grid spacing process() uses is atr_pct x 2.5 clamped to
\* [min_grid_size, max_grid_size], so it lies between the two, bounds included:
\* the signals process() returns are those of the buy condition and of the sell
\* triggers taken on the clamped spacing.
C15_GridClamp ==
    [][ProcessStep =>
        LET row == call'.row
            G   == Clamped(row.ATR_pct)
        IN  /\ min_grid_size <= G /\ G <= max_grid_size
            /\ grid_size(row.ATR_pct) = G
            /\ Len(WithSide(ret', "BUY")) = 1 <=>
                  BuyCondition(RowState(row), G, row.Close, last_buy_price)
            /\ Len(WithSide(ret', "SELL")) =
                  Cardinality({i \in 1..Len(positions) :
                                  MeetsTrigger(RowState(row), G, row.Close, positions[i])})]_vars

\* a RANGE row whose atr_pct x 2.5 is 25%, far above max_grid_size: the lot
\* bought at 100 is sold at 110, a profit of 10%, the clamped spacing
C15_Witness ==
    /\ pc = "returned"
    /\ call.row.ATR_pct * 5 > 2 * max_grid_size
    /\ RowState(call.row) = "RANGE"
    /\ positions = <<Position(100, 1)>>
    /\ call.row.Close = 110
    /\ ret = <<TradeSignal("SELL", 110, 1)>>

\* ps without the lot at place i
WithoutLot(ps, i) == SubSeq(ps, 1, i - 1) \o SubSeq(ps, i + 1, Len(ps))

\* the step sold the lot at place i of the ledger for the signal at the head of the
\* bar's signals: the lot met the bar's trigger, the signal has its amount, the
\* ledger lost that lot and no other unit, and the trade logged has the P&L
\* (price - the lot's entry price) x amount - commission
SoldLot(i) ==
    LET signal == Head(signals)
        lot    == positions[i]
        trade  == trades'[Len(trades')]
    IN  /\ MeetsTrigger(RowState(bar), grid_size(bar.ATR_pct), signal.price, lot)
        /\ lot.amount = signal.amount
        /\ positions' = WithoutLot(positions, i)
        /\ Len(trades') = Len(trades) + 1
        /\ trade.side = "SELL"
        /\ trade.pnl = (signal.price - lot.entry_price) * signal.amount * MoneyScale
                       - signal.price * signal.amount * commission_rate

\* C16, as claimed. Executed sells match the lot that triggered them: when the
\* engine executes a SELL signal of process(), the units removed from the ledger
\* are those of a lot that met the bar's trigger, and the trade's P&L is
\* (price - that lot's entry price) x amount - commission; so on a BULL or RANGE
\* bar, which has no stop-loss, every SELL trade has a P&L before commission
\* that is not negative, also when only some of the open lots qualify.
C16_SellsTriggeringLot ==
    [][SellSignalStep =>
        /\ \E i \in 1..Len(positions) : SoldLot(i)
        /\ RowState(bar) \in {"BULL", "RANGE"} => ret' >= 0]_vars

\* C17. Descending ledger: with min_grid_size > 0 and positive prices, in every
\* state of an engine run the entry prices of the open lots strictly decrease
\* from the oldest lot to the newest, and every lot's amount is the configured
\* order amount (no lot is ever partly consumed).
C17_DescendingLedger ==
    /\ \A i \in 1..(Len(positions) - 1) :
          positions[i].entry_price > positions[i + 1].entry_price
    /\ \A i \in 1..Len(positions) : positions[i].amount = order_amount

\* a second lot has just been bought, below the first
C17_Witness ==
    /\ call.op = "execute_buy"
    /\ Len(positions) = 2
    /\ positions[1].entry_price > positions[2].entry_price
    /\ last_buy_price = positions[2].entry_price

\* the run is in the loop over the bars, before the forced close
InBarLoop == pc \in {"bar", "signals"}

\* C18. Anchor tracks the ledger: in every state of the bar loop, before the
\* forced close, last_buy_price = 0 iff the ledger is empty, and on a ledger that
\* is not empty last_buy_price is the entry price of the newest (tail) lot.
C18_AnchorTracksLedger ==
    InBarLoop =>
        /\ last_buy_price = 0 <=> positions = <<>>
        /\ positions # <<>> => last_buy_price = positions[Len(positions)].entry_price

\* in the loop, a sell has emptied a ledger that a BUY had filled, and the anchor
\* is back to 0
C18_Witness ==
    /\ InBarLoop
    /\ call.op = "execute_sell"
    /\ HasTrade("BUY")
    /\ positions = <<>>
    /\ last_buy_price = 0

\* C19. Cash never goes negative: with positive prices and a commission rate in
\* [0, 1], cash >= 0 in every state of a run, from the initial capital through
\* every executed BUY, SELL and closing SELL.
C19_CashNeverNegative == cash >= 0

\* a lot is held and the cash left does not cover the BUY of this bar, which the
\* engine has refused
C19_Witness ==
    /\ rejected = "cash"
    /\ positions # <<>>
    /\ cash >= 0
    /\ cash < bar.Close * order_amount * (MoneyScale + commission_rate)

\* the commission paid on the BUY trades logged at place i or later:
\* price x amount x commission_rate each
RECURSIVE BuyCommissionFrom(_)
BuyCommissionFrom(i) ==
    IF i > Len(trades) THEN 0
    ELSE (IF trades[i].side = "BUY"
          THEN trades[i].price * trades[i].amount * commission_rate ELSE 0)
         + BuyCommissionFrom(i + 1)

\* C20. Run-level accounting identity: when run() has finished, final cash less
\* the initial capital is the reported total_pnl less the commission paid on the
\* executed BUY trades; the buy-side commission is the only difference between
\* the reported total P&L and the change in cash.
C20_AccountingIdentity ==
    pc = "done" =>
        cash - initial_capital * MoneyScale = result.total_pnl - BuyCommissionFrom(1)

\* a finished run that bought, sold in the loop and closed a lot at the end, and
\* whose reported total P&L is not the change in cash
C20_Witness ==
    /\ pc = "done"
    /\ HasTrade("BUY") /\ HasTrade("SELL") /\ HasTrade("SELL(CLOSE)")
    /\ BuyCommissionFrom(1) > 0
    /\ result.total_pnl # cash - initial_capital * MoneyScale

\* the step executes the BUY signal at the head of the bar's signals
BuyExecutedStep == BuyStep /\ Len(trades') = Len(trades) + 1

\* C21, as claimed. Risk limit bounds exposure after a buy: right after any
\* executed BUY, position value / equity, both taken at that bar's price on the
\* holding and the cash the BUY leaves, does not exceed max_position_ratio.
C21_RiskLimitAfterBuy ==
    [][BuyExecutedStep =>
        LET price  == Head(signals).price
            value  == total_position' * price * MoneyScale
            equity == cash' + value
        IN  value * max_position_ratio[2] <= max_position_ratio[1] * equity]_vars

====
